---- MODULE Spec2Model ----
(***************************************************************************)
(* A model of htmlformat (format.go): the recursive layout of a parsed     *)
(* HTML node tree onto an output sink.                                     *)
(*                                                                         *)
(* A string is a sequence of symbols.  Every character of a text, comment  *)
(* or attribute value is one symbol; a tag name or an attribute name is    *)
(* one symbol too (names are never split by the formatter).                *)
(*                                                                         *)
(* A node is a record [Type, Data, Attr, Children].  A pointer to a node   *)
(* of a forest f is the path to it: <<i>> is the i-th root, p \o <<k>> the *)
(* k-th child of p; <<>> is the nil pointer.  Parent, PrevSibling and      *)
(* NextSibling are read off the path, as html.Node's links are read by the *)
(* code.  Roots are detached: they have no parent and no siblings, as the  *)
(* nodes html.ParseFragment returns.                                       *)
(***************************************************************************)
EXTENDS Integers, Sequences, FiniteSets, TLC

VARIABLES input, failAt, entry, tree, w, again

vars == <<input, failAt, entry, tree, w, again>>

-----------------------------------------------------------------------------
(* Symbols *)

NL == "\n"
SP == " "
QUOT == "\""

TextNode == "Text"
ElementNode == "Element"
CommentNode == "Comment"
DoctypeNode == "Doctype"
DocumentNode == "Document"

Nil == <<>>

\* unicode.IsSpace, on the symbols of the model
IsSpace(c) == c \in {SP, NL, "\t", "\r"}

\* unicode.IsPunct (categories Pc Pd Pe Pf Pi Po Ps), on the symbols of the
\* model.  "<", ">", "=", "+", "$" are symbols (category S), not punctuation.
IsPunct(c) == c \in {".", ",", "!", "?", ";", ":", "-", "&", QUOT, "'", "#", "/", "{", "}"}

\* utf8.RuneError, what DecodeRuneInString returns for the empty string
RuneError == "U+FFFD"

getFirstRune(s) == IF s = <<>> THEN RuneError ELSE s[1]

RECURSIVE TrimLeft(_)
TrimLeft(s) == IF s /= <<>> /\ IsSpace(s[1]) THEN TrimLeft(Tail(s)) ELSE s

RECURSIVE TrimRight(_)
TrimRight(s) ==
    IF s /= <<>> /\ IsSpace(s[Len(s)]) THEN TrimRight(SubSeq(s, 1, Len(s) - 1)) ELSE s

\* strings.TrimSpace
TrimSpace(s) == TrimRight(TrimLeft(s))

\* strings.Repeat(c, k)
Repeat(c, k) == [i \in 1..k |-> c]

\* EscapeChar leaving the ampersand as it is
EscapeChar_keepAmp(c) ==
    CASE c = "<" -> <<"&", "l", "t", ";">>
      [] c = ">" -> <<"&", "g", "t", ";">>
      [] c = "'" -> <<"&", "#", "3", "9", ";">>
      [] c = QUOT -> <<"&", "#", "3", "4", ";">>
      [] OTHER -> <<c>>

\* html.EscapeString, one symbol
EscapeChar(c) ==
    CASE c = "&" -> <<"&", "a", "m", "p", ";">>
      [] c = "<" -> <<"&", "l", "t", ";">>
      [] c = ">" -> <<"&", "g", "t", ";">>
      [] c = "'" -> <<"&", "#", "3", "9", ";">>
      [] c = QUOT -> <<"&", "#", "3", "4", ";">>
      [] OTHER -> <<c>>

RECURSIVE EscapeString(_)
\* html.EscapeString
EscapeString(s) == IF s = <<>> THEN <<>> ELSE EscapeChar(s[1]) \o EscapeString(Tail(s))

RECURSIVE ScanLines(_)
\* bufio.Scanner with the default split function bufio.ScanLines: the lines of
\* s without their terminators; a terminator is "\n" with an optional "\r"
\* before it; a last line without terminator is a line, an empty rest is not.
ScanLines(s) ==
    IF s = <<>> THEN <<>>
    ELSE IF \E i \in 1..Len(s) : s[i] = NL
         THEN LET i == CHOOSE j \in 1..Len(s) : s[j] = NL /\ \A k \in 1..(j - 1) : s[k] /= NL
                  line == SubSeq(s, 1, i - 1)
                  dropCR == IF line /= <<>> /\ line[Len(line)] = "\r"
                            THEN SubSeq(line, 1, Len(line) - 1) ELSE line
              IN <<dropCR>> \o ScanLines(SubSeq(s, i + 1, Len(s)))
         ELSE <<IF s[Len(s)] = "\r" THEN SubSeq(s, 1, Len(s) - 1) ELSE s>>

-----------------------------------------------------------------------------
(* Nodes and their links *)

RECURSIVE NodeIn(_, _)
\* the node a non-nil pointer p names among the sibling sequence kids
NodeIn(kids, p) ==
    IF Len(p) = 1 THEN kids[p[1]] ELSE NodeIn(kids[p[1]].Children, Tail(p))

Node(f, p) == NodeIn(f, p)

Parent(p) == IF Len(p) <= 1 THEN Nil ELSE SubSeq(p, 1, Len(p) - 1)

FirstChild(f, p) == IF Node(f, p).Children = <<>> THEN Nil ELSE p \o <<1>>

LastChild(f, p) ==
    IF Node(f, p).Children = <<>> THEN Nil ELSE p \o <<Len(Node(f, p).Children)>>

NextSibling(f, p) ==
    IF Len(p) <= 1 THEN Nil
    ELSE IF p[Len(p)] < Len(Node(f, Parent(p)).Children)
         THEN Parent(p) \o <<p[Len(p)] + 1>> ELSE Nil

PrevSibling(f, p) ==
    IF Len(p) <= 1 THEN Nil
    ELSE IF p[Len(p)] > 1 THEN Parent(p) \o <<p[Len(p)] - 1>> ELSE Nil

-----------------------------------------------------------------------------
(* Classifier *)

VoidTags ==
    {"area", "base", "br", "col", "command", "embed", "hr", "img", "input",
     "keygen", "link", "meta", "param", "source", "track", "wbr"}

\* isVoidElement without atom.Img
isVoidElement_noImg(f, p) ==
    Node(f, p).Type = ElementNode /\ Node(f, p).Data[1] \in VoidTags \ {"img"}

\* n.DataAtom is the atom of the tag name of an element, and 0 for other nodes
isVoidElement(f, p) ==
    Node(f, p).Type = ElementNode /\ Node(f, p).Data[1] \in VoidTags

\* isSpecialContentElement without atom.Script
isSpecialContentElement_styleOnly(f, p) ==
    /\ p /= Nil
    /\ Node(f, p).Type = ElementNode
    /\ Node(f, p).Data[1] \in {"style"}

isSpecialContentElement(f, p) ==
    /\ p /= Nil
    /\ Node(f, p).Type = ElementNode
    /\ Node(f, p).Data[1] \in {"style", "script"}

isEmptyTextNode(f, p) ==
    Node(f, p).Type = TextNode /\ TrimSpace(Node(f, p).Data) = <<>>

\* hasSingleTextChild testing the child for the wrong node type
hasSingleTextChild_wrongType(f, p) ==
    /\ p /= Nil
    /\ FirstChild(f, p) /= Nil
    /\ FirstChild(f, p) = LastChild(f, p)
    /\ Node(f, FirstChild(f, p)).Type = ElementNode

hasSingleTextChild(f, p) ==
    /\ p /= Nil
    /\ FirstChild(f, p) /= Nil
    /\ FirstChild(f, p) = LastChild(f, p)
    /\ Node(f, FirstChild(f, p)).Type = TextNode

-----------------------------------------------------------------------------
(* The output sink.  out is what was written; n counts the writes attempted;  *)
(* err is 0 (nil) or the number of the write that failed; a sink with         *)
(* failAt = k > 0 fails its k-th write and every later one.  visits and ends  *)
(* record, for each printNode call, the node, the level, the length of out    *)
(* when the call starts and when it returns, and the writes attempted before  *)
(* it starts.                                                                 *)

NewWriter(k) ==
    [out |-> <<>>, n |-> 0, err |-> 0, failAt |-> k, visits |-> <<>>, ends |-> <<>>]

\* one Write call on the io.Writer, as fmt.Fprint / Fprintf / Fprintln make it
Fprint(s, x) ==
    LET k == s.n + 1 IN
    IF s.failAt /= 0 /\ k >= s.failAt
    THEN [s EXCEPT !.n = k, !.err = k]
    ELSE [s EXCEPT !.n = k, !.out = @ \o x]

\* printIndent with two spaces for each level
printIndent_twoSpaces(s, level) == Fprint(s, Repeat(SP, 2 * level))

printIndent(s, level) == Fprint(s, Repeat(SP, level))

Enter(s, p, level) ==
    [s EXCEPT !.visits = Append(@, [ptr |-> p, level |-> level, from |-> Len(s.out), n |-> s.n])]

Leave(s, p) == [s EXCEPT !.ends = Append(@, [ptr |-> p, to |-> Len(s.out)])]

-----------------------------------------------------------------------------
(* Layout engine.  A step that follows `if err != nil { return }` runs only   *)
(* on a sink that has not failed.  The recursion of printNode and             *)
(* printChildren is run with its call stack made explicit: a list of the      *)
(* pending calls of printNode and of the pending returns of printChildren.    *)

RECURSIVE printLines(_, _, _, _)
\* the scanner loop of the text arm: lines[i..] at level
printLines(s, lines, i, level) ==
    IF i > Len(lines) THEN s
    ELSE LET s1 == Fprint(s, <<NL>>)
             s2 == IF s1.err /= 0 THEN s1 ELSE printIndent(s1, level + 1)
             s3 == IF s2.err /= 0 THEN s2 ELSE Fprint(s2, lines[i])
         IN IF s3.err /= 0 THEN s3 ELSE printLines(s3, lines, i + 1, level)

\* printNode, case html.TextNode
printText(s0, f, p, level) ==
    LET str == TrimSpace(Node(f, p).Data)
        s1 == IF /\ ~isSpecialContentElement(f, Parent(p))
                 /\ ~hasSingleTextChild(f, Parent(p))
                 /\ (PrevSibling(f, p) = Nil \/ ~IsPunct(getFirstRune(str)))
              THEN printIndent(s0, level) ELSE s0
        s2 == IF s1.err /= 0 THEN s1 ELSE printLines(s1, ScanLines(str), 1, level)
        s3 == IF s1.err /= 0 THEN s1 ELSE Fprint(s1, str)
    IN IF str = <<>> THEN s0
       ELSE IF isSpecialContentElement(f, Parent(p))
            THEN IF s2.err /= 0 THEN s2 ELSE Fprint(s2, <<NL>>)
            ELSE IF s3.err /= 0 \/ hasSingleTextChild(f, Parent(p)) THEN s3
                 ELSE Fprint(s3, <<NL>>)

RECURSIVE printAttrs(_, _, _)
\* the attribute loop of the element arm: attr[i..]
printAttrs(s, attr, i) ==
    IF i > Len(attr) THEN s
    ELSE LET val == EscapeString(attr[i].Val)
             s1 == Fprint(s, <<SP, attr[i].Key, "=", QUOT>> \o val \o <<QUOT>>)
         IN IF s1.err /= 0 THEN s1 ELSE printAttrs(s1, attr, i + 1)

\* newlineAfterEnd without the punctuation test
newlineAfterEnd_always(f, p) ==
    \/ NextSibling(f, p) = Nil
    \/ Node(f, NextSibling(f, p)).Type /= ElementNode
    \/ Node(f, NextSibling(f, p)).Type = ElementNode

\* whether the end tag of element p is followed by a newline
newlineAfterEnd(f, p) ==
    \/ NextSibling(f, p) = Nil
    \/ ~IsPunct(getFirstRune(Node(f, NextSibling(f, p)).Data))
    \/ Node(f, NextSibling(f, p)).Type = ElementNode

\* printNode, case html.ElementNode, up to `if !isVoidElement(n)`
printStartTag(s0, f, p, level) ==
    LET n == Node(f, p)
        s1 == printIndent(s0, level)
        s2 == IF s1.err /= 0 THEN s1 ELSE Fprint(s1, <<"<">> \o n.Data)
        s3 == IF s2.err /= 0 THEN s2 ELSE printAttrs(s2, n.Attr, 1)
        s4 == IF s3.err /= 0 THEN s3 ELSE Fprint(s3, <<">">>)
    IN IF s4.err /= 0 \/ hasSingleTextChild(f, p) THEN s4 ELSE Fprint(s4, <<NL>>)

\* printNode, case html.ElementNode, after printChildren has returned nil
printEndTag(s6, f, p, level) ==
    LET n == Node(f, p)
        s7 == IF isSpecialContentElement(f, p) \/ ~hasSingleTextChild(f, p)
              THEN printIndent(s6, level) ELSE s6
        s8 == IF s7.err /= 0 THEN s7 ELSE Fprint(s7, <<"<", "/">> \o n.Data \o <<">">>)
    IN IF s8.err /= 0 \/ ~newlineAfterEnd(f, p) THEN s8 ELSE Fprint(s8, <<NL>>)

\* printNode, case html.CommentNode, up to printChildren
printComment(s0, f, p, level) ==
    LET s1 == printIndent(s0, level)
    IN IF s1.err /= 0 THEN s1
       ELSE Fprint(s1, <<"<", "!", "-", "-">> \o Node(f, p).Data \o <<"-", "-", ">", NL>>)

\* a pending call printNode(w, p, level)
Call(p, level) == [ptr |-> p, level |-> level, end |-> FALSE]

\* the rest of the call printNode(w, p, level) once its printChildren returns
Return(p, level) == [ptr |-> p, level |-> level, end |-> TRUE]

\* the calls of printNode the loop of printChildren makes on the children of p
printChildren(f, p, level) ==
    [k \in 1..Len(Node(f, p).Children) |-> Call(p \o <<k>>, level)]

\* whether printNode on p reaches a call of printChildren
callsChildren(f, p) == Node(f, p).Type /= TextNode /\ ~isVoidElement(f, p)

\* printNode on p up to its call of printChildren, or to its return when it
\* makes none
printNode(s, f, p, level) ==
    LET t == Node(f, p).Type
        s0 == Enter(s, p, level)
        s1 == CASE t = TextNode -> printText(s0, f, p, level)
                [] t = ElementNode -> printStartTag(s0, f, p, level)
                [] t = CommentNode -> printComment(s0, f, p, level)
                [] OTHER -> s0
    IN IF callsChildren(f, p) THEN s1 ELSE Leave(s1, p)

\* printNode on p from the return of its printChildren on
printNodeEnd(s, f, p, level) ==
    Leave(IF Node(f, p).Type = ElementNode THEN printEndTag(s, f, p, level) ELSE s, p)

\* one pending step c on sink s
Step(s, f, c) ==
    IF c.end THEN printNodeEnd(s, f, c.ptr, c.level) ELSE printNode(s, f, c.ptr, c.level)

\* what is pending once the first step of todo is done: a call that reaches
\* printChildren leaves the calls on its children (a level deeper under an
\* element) and its own return before the steps that were pending
Pending(f, todo) ==
    LET c == Head(todo)
        below == IF Node(f, c.ptr).Type = ElementNode THEN c.level + 1 ELSE c.level
    IN IF ~c.end /\ callsChildren(f, c.ptr)
       THEN printChildren(f, c.ptr, below) \o <<Return(c.ptr, c.level)>> \o Tail(todo)
       ELSE Tail(todo)

RECURSIVE Run_ignoreErr(_, _, _)
\* Run going on with the pending steps after a failed write
Run_ignoreErr(s, f, todo) ==
    IF todo = <<>> \/ s.err < 0 THEN s
    ELSE Run_ignoreErr(Step(s, f, Head(todo)), f, Pending(f, todo))

RECURSIVE Run(_, _, _)
\* the pending steps in order; after a failed write every function on the call
\* stack returns the error, so none of them runs
Run(s, f, todo) ==
    IF todo = <<>> \/ s.err /= 0 THEN s
    ELSE Run(Step(s, f, Head(todo)), f, Pending(f, todo))

\* Nodes(w, nodes)
FormatNodes(s, f) == Run(s, f, [i \in 1..Len(f) |-> Call(<<i>>, 0)])

-----------------------------------------------------------------------------
(* What the external parser (golang.org/x/net/html) hands to the formatter *)

Elem(tag, attr, kids) ==
    [Type |-> ElementNode, Data |-> <<tag>>, Attr |-> attr, Children |-> kids]

Text(data) == [Type |-> TextNode, Data |-> data, Attr |-> <<>>, Children |-> <<>>]

Comment(data, kids) ==
    [Type |-> CommentNode, Data |-> data, Attr |-> <<>>, Children |-> kids]

RECURSIVE ParserTree(_)
\* the shapes html.Parse and html.ParseFragment build: text and comments are
\* leaves, a text is not empty, two texts are never adjacent (the parser merges
\* them), a void element has no children, <style> and <script> hold at most one
\* text (their content is raw text)
ParserTree(kids) ==
    /\ \A i \in 1..Len(kids) :
          LET n == kids[i] IN
          /\ n.Type \in {TextNode, CommentNode, ElementNode}
          /\ n.Type \in {TextNode, CommentNode} => n.Children = <<>>
          /\ n.Type = TextNode => n.Data /= <<>>
          /\ (n.Type = ElementNode /\ n.Data[1] \in VoidTags) => n.Children = <<>>
          /\ (n.Type = ElementNode /\ n.Data[1] \in {"style", "script"}) =>
                 (Len(n.Children) <= 1 /\ \A k \in 1..Len(n.Children) : n.Children[k].Type = TextNode)
          /\ ParserTree(n.Children)
    /\ \A i \in 1..(Len(kids) - 1) : ~(kids[i].Type = TextNode /\ kids[i + 1].Type = TextNode)

\* the tree html.Parse builds around the content of a document's body
DocumentOf(body) ==
    <<[Type |-> DocumentNode, Data |-> <<>>, Attr |-> <<>>,
       Children |-> <<Elem("html", <<>>, <<Elem("head", <<>>, <<>>), Elem("body", <<>>, body)>>)>>]>>

-----------------------------------------------------------------------------
(* html.ParseFragment in the "in body" insertion mode the context node of     *)
(* Fragment selects, for markup made of the tags ParserTags, comments, text   *)
(* and the character references html.EscapeString writes.                     *)

ParserTags == {"div", "pre", "br", "style", "script"}

Root == "#root"

Frame(tag, attr) == [tag |-> tag, attr |-> attr, kids |-> <<>>]

\* append node n to the element on top of the stack of open elements
AddNode(stack, n) == [stack EXCEPT ![Len(stack)].kids = Append(@, n)]

\* append the characters x: to the text node before them, if there is one
AddText(stack, x) ==
    LET kids == stack[Len(stack)].kids IN
    IF kids /= <<>> /\ kids[Len(kids)].Type = TextNode
    THEN [stack EXCEPT ![Len(stack)].kids[Len(kids)].Data = @ \o x]
    ELSE AddNode(stack, Text(x))

\* pop the top element into its parent
CloseTop(stack) ==
    LET top == stack[Len(stack)] IN
    AddNode(SubSeq(stack, 1, Len(stack) - 1), Elem(top.tag, top.attr, top.kids))

RECURSIVE CloseUntil(_, _)
\* pop up to and including the nearest open element named tag
CloseUntil(stack, tag) ==
    IF stack[Len(stack)].tag = tag THEN CloseTop(stack)
    ELSE CloseUntil(CloseTop(stack), tag)

RECURSIVE CloseAll(_)
CloseAll(stack) == IF Len(stack) = 1 THEN stack ELSE CloseAll(CloseTop(stack))

\* whether pat occurs in s at index i
At(s, i, pat) == i + Len(pat) - 1 <= Len(s) /\ SubSeq(s, i, i + Len(pat) - 1) = pat

\* the first index from i on where pat occurs in s; Len(s) + 1 if there is none
Find(s, i, pat) ==
    IF \E j \in i..Len(s) : At(s, j, pat)
    THEN CHOOSE j \in i..Len(s) : At(s, j, pat) /\ \A k \in i..(j - 1) : ~At(s, k, pat)
    ELSE Len(s) + 1

\* the character reference at index i of s as [c, len], the character itself
\* if there is none
Unescape(s, i) ==
    CASE At(s, i, <<"&", "a", "m", "p", ";">>) -> [c |-> "&", len |-> 5]
      [] At(s, i, <<"&", "l", "t", ";">>) -> [c |-> "<", len |-> 4]
      [] At(s, i, <<"&", "g", "t", ";">>) -> [c |-> ">", len |-> 4]
      [] At(s, i, <<"&", "#", "3", "9", ";">>) -> [c |-> "'", len |-> 5]
      [] At(s, i, <<"&", "#", "3", "4", ";">>) -> [c |-> QUOT, len |-> 5]
      [] OTHER -> [c |-> s[i], len |-> 1]

RECURSIVE UnescapeString(_, _)
UnescapeString(s, i) ==
    IF i > Len(s) THEN <<>>
    ELSE <<Unescape(s, i).c>> \o UnescapeString(s, i + Unescape(s, i).len)

RECURSIVE ReadAttrs(_, _)
\* the attributes of a start tag from index i on, and the index after its ">"
ReadAttrs(s, i) ==
    IF i > Len(s) THEN [attr |-> <<>>, next |-> i]
    ELSE IF s[i] = ">" THEN [attr |-> <<>>, next |-> i + 1]
    ELSE IF s[i] = SP /\ At(s, i + 2, <<"=", QUOT>>)
         THEN LET q == Find(s, i + 4, <<QUOT>>)
                  a == [Key |-> s[i + 1], Val |-> UnescapeString(SubSeq(s, i + 4, q - 1), 1)]
                  r == ReadAttrs(s, q + 1)
              IN [attr |-> <<a>> \o r.attr, next |-> r.next]
         ELSE ReadAttrs(s, i + 1)

\* the tokenizer at index i of s with the open elements stack, after one token:
\* an end tag, a comment, a start tag (with the raw text and the end tag of a
\* <style> or <script>), or a run of text
Token(s, i, stack) ==
    IF At(s, i, <<"<", "/">>) /\ i + 2 <= Len(s) /\ s[i + 2] \in ParserTags
    THEN LET tag == s[i + 2]
             open == \E k \in 2..Len(stack) : stack[k].tag = tag
         IN [i |-> Find(s, i + 3, <<">">>) + 1,
             stack |-> IF open THEN CloseUntil(stack, tag) ELSE stack]
    ELSE IF At(s, i, <<"<", "!", "-", "-">>)
    THEN LET k == Find(s, i + 4, <<"-", "-", ">">>)
         IN [i |-> k + 3, stack |-> AddNode(stack, Comment(SubSeq(s, i + 4, k - 1), <<>>))]
    ELSE IF s[i] = "<" /\ i + 1 <= Len(s) /\ s[i + 1] \in ParserTags
    THEN LET tag == s[i + 1]
             r == ReadAttrs(s, i + 2)
         IN IF tag \in VoidTags
            THEN [i |-> r.next, stack |-> AddNode(stack, Elem(tag, r.attr, <<>>))]
            ELSE IF tag \in {"style", "script"}
            THEN LET k == Find(s, r.next, <<"<", "/", tag, ">">>)
                     raw == SubSeq(s, r.next, k - 1)
                 IN [i |-> k + 4,
                     stack |-> AddNode(stack, Elem(tag, r.attr,
                                                   IF raw = <<>> THEN <<>> ELSE <<Text(raw)>>))]
            ELSE IF tag = "pre" /\ At(s, r.next, <<NL>>)
            THEN [i |-> r.next + 1, stack |-> Append(stack, Frame(tag, r.attr))]
            ELSE [i |-> r.next, stack |-> Append(stack, Frame(tag, r.attr))]
    ELSE LET k == Find(s, i + 1, <<"<">>)
         IN [i |-> k, stack |-> AddText(stack, UnescapeString(SubSeq(s, i, k - 1), 1))]

RECURSIVE Build(_, _)
\* tree construction from the tokenizer state st on
Build(s, st) ==
    IF st.i > Len(s) THEN CloseAll(st.stack)[1].kids
    ELSE Build(s, Token(s, st.i, st.stack))

ParseFragment(s) == Build(s, [i |-> 1, stack |-> <<Frame(Root, <<>>)>>])

RECURSIVE TagsOf(_)
\* the tag names of a forest
TagsOf(kids) ==
    UNION {(IF kids[i].Type = ElementNode THEN {kids[i].Data[1]} ELSE {})
              \cup TagsOf(kids[i].Children) : i \in 1..Len(kids)}

-----------------------------------------------------------------------------
(* Bounds and inputs *)

MaxNodes == 4
MaxAttrs == 2
MaxWrap == 2
MaxFailNodes == 2
MaxFail == 14

Texts == {<<SP>>, <<SP, "a", SP>>, <<".">>}

CommentData == {<<"c">>, <<"!">>}

\* an ordinary element, a void element; <style> is added below
Tags == {"div", "br"}

Leaves ==
    {Text(d) : d \in Texts} \cup {Comment(d, <<>>) : d \in CommentData}
        \cup {Elem(t, <<>>, <<>>) : t \in Tags \cup {"style"}}

RECURSIVE TreesOfSize(_)
RECURSIVE ForestsOfSize(_)

\* the trees of exactly k nodes: the shapes the parser builds (comments and
\* texts are leaves, <style> holds at most one text), and void elements with
\* children besides, which only a caller of Nodes can build
TreesOfSize(k) ==
    IF k = 1 THEN Leaves
    ELSE {Elem(t, <<>>, kids) : t \in Tags, kids \in ForestsOfSize(k - 1)}
             \cup (IF k = 2 THEN {Elem("style", <<>>, <<Text(d)>>) : d \in Texts} ELSE {})

\* the sequences of trees of k nodes in all
ForestsOfSize(k) ==
    IF k = 0 THEN {<<>>}
    ELSE UNION {{<<t>> \o r : t \in TreesOfSize(j), r \in ForestsOfSize(k - j)} : j \in 1..k}

LayoutInputs == UNION {{<<t>> : t \in TreesOfSize(k)} : k \in 1..MaxNodes}

AttrKeys == {"id", "class"}

AttrVals == {<<"a">>, <<"&">>, <<"&", "&">>, <<"<", QUOT, ">">>, <<"'">>}

Attrs == {[Key |-> k, Val |-> v] : k \in AttrKeys, v \in AttrVals}

RECURSIVE AttrLists(_)
AttrLists(k) ==
    IF k = 0 THEN {<<>>}
    ELSE AttrLists(k - 1) \cup {Append(l, a) : l \in AttrLists(k - 1), a \in Attrs}

AttrInputs ==
    {<<Elem(t, l, kids)>> : t \in {"div", "br"}, l \in AttrLists(MaxAttrs),
                            kids \in {<<>>, <<Text(<<"a">>)>>}}

RECURSIVE Wrap(_, _)
\* n inside k nested <div>
Wrap(n, k) == IF k = 0 THEN n ELSE Elem("div", <<>>, <<Wrap(n, k - 1)>>)

SpecialTexts ==
    {<<"a">>, <<"a", NL, "b">>, <<SP, "a", NL, NL, "b", NL>>,
     <<NL, "a", "{", NL, SP, "b", NL, "}", NL>>}

SpecialInputs ==
    {<<Wrap(Elem(t, <<>>, <<Text(d)>>), k)>> :
        t \in {"style", "script"}, d \in SpecialTexts, k \in 0..MaxWrap}

PreTexts == {<<SP, "a", SP>>, <<"a", NL, SP, "b">>, <<NL, "a">>}

PreInputs ==
    {<<Wrap(Elem("pre", <<>>, kids), k)>> :
        kids \in {<<Text(d)>> : d \in PreTexts}
                    \cup {<<Elem("div", <<>>, <<Text(d)>>)>> : d \in PreTexts}
                    \cup {<<Text(d), Elem("br", <<>>, <<>>)>> : d \in PreTexts},
        k \in 0..MaxWrap}

VoidInputs ==
    {<<Elem(t, <<>>, kids)>> : t \in VoidTags, kids \in ForestsOfSize(0) \cup ForestsOfSize(1)}

FailInputs == UNION {ForestsOfSize(k) : k \in 1..MaxFailNodes}

-----------------------------------------------------------------------------
(* The entry points *)

Init ==
    /\ \/ input \in LayoutInputs /\ failAt = 0
       \/ input \in AttrInputs /\ failAt = 0
       \/ input \in SpecialInputs /\ failAt = 0
       \/ input \in PreInputs /\ failAt = 0
       \/ input \in VoidInputs /\ failAt = 0
       \/ input \in FailInputs /\ failAt \in 1..MaxFail
    /\ entry = "none"
    /\ tree = <<>>
    /\ w = NewWriter(failAt)
    /\ again = NewWriter(0)

\* Nodes(w, nodes): any node list a caller builds
Nodes ==
    /\ entry = "none"
    /\ entry' = "Nodes"
    /\ tree' = input
    /\ w' = FormatNodes(NewWriter(failAt), input)
    /\ UNCHANGED <<input, failAt, again>>

\* Fragment(w, r): the nodes html.ParseFragment returns for r
Fragment ==
    /\ entry = "none"
    /\ ParserTree(input) = TRUE
    /\ entry' = "Fragment"
    /\ tree' = input
    /\ w' = FormatNodes(NewWriter(failAt), input)
    /\ UNCHANGED <<input, failAt, again>>

\* Document(w, r): the document node html.Parse returns for r
Document ==
    /\ entry = "none"
    /\ ParserTree(input) = TRUE
    /\ entry' = "Document"
    /\ tree' = DocumentOf(input)
    /\ w' = FormatNodes(NewWriter(failAt), DocumentOf(input))
    /\ UNCHANGED <<input, failAt, again>>

\* Fragment once more, on the output of a Fragment call that succeeded
Reformat ==
    /\ entry = "Fragment"
    /\ w.err = 0
    /\ TagsOf(input) \subseteq ParserTags
    /\ entry' = "Reformat"
    /\ again' = FormatNodes(NewWriter(0), ParseFragment(w.out))
    /\ UNCHANGED <<input, failAt, tree, w>>

Next == Nodes \/ Fragment \/ Document \/ Reformat

Spec == Init /\ [][Next]_vars

-----------------------------------------------------------------------------
(* Reading a finished run *)

Finished == entry /= "none" /\ w.err = 0

Visits == {w.visits[i] : i \in DOMAIN w.visits}

\* the length of out when the printNode call on p returned
EndOf(p) == (CHOOSE e \in {w.ends[i] : i \in DOMAIN w.ends} : e.ptr = p).to

\* out[a+1 .. b]
Out(a, b) == SubSeq(w.out, a + 1, b)

\* what the call of visit v wrote
Span(v) == Out(v.from, EndOf(v.ptr))

\* whether out holds x right after position a
OutHas(a, x) == a + Len(x) <= Len(w.out) /\ Out(a, a + Len(x)) = x

\* whether out holds x right before position a
OutHasBefore(a, x) == a >= Len(x) /\ Out(a - Len(x), a) = x

RECURSIVE Pointers(_, _)
\* the pointers to the nodes of the sibling sequence kids, which p points above
Pointers(kids, p) ==
    UNION {{p \o <<i>>} \cup Pointers(kids[i].Children, p \o <<i>>) : i \in 1..Len(kids)}

IsPrefix(p, q) == Len(p) <= Len(q) /\ SubSeq(q, 1, Len(p)) = p

\* the proper ancestors of p
Ancestors(p) == {SubSeq(p, 1, k) : k \in 1..(Len(p) - 1)}

ElementAncestors(f, p) == Cardinality({a \in Ancestors(p) : Node(f, a).Type = ElementNode})

IsElement(f, p) == Node(f, p).Type = ElementNode

TagOf(f, p) == Node(f, p).Data[1]

\* the escaped forms the attribute rule names, written out
Entity(c) ==
    CASE c = "&" -> <<"&", "a", "m", "p", ";">>
      [] c = "<" -> <<"&", "l", "t", ";">>
      [] c = ">" -> <<"&", "g", "t", ";">>
      [] c = QUOT -> <<"&", "#", "3", "4", ";">>
      [] c = "'" -> <<"&", "#", "3", "9", ";">>
      [] OTHER -> <<c>>

RECURSIVE Quoted(_)
Quoted(val) == IF val = <<>> THEN <<>> ELSE Entity(val[1]) \o Quoted(Tail(val))

RECURSIVE AttrText(_)
\* one space, the name, = and the quoted value, for each attribute in order
AttrText(attr) ==
    IF attr = <<>> THEN <<>>
    ELSE <<SP, attr[1].Key, "=", QUOT>> \o Quoted(attr[1].Val) \o <<QUOT>> \o AttrText(Tail(attr))

StartTag(n) == <<"<", n.Data[1]>> \o AttrText(n.Attr) \o <<">">>

EndTag(n) == <<"<", "/", n.Data[1], ">">>

Spaces(k) == [i \in 1..k |-> SP]

\* an element that is neither void nor <style>/<script> and whose only child is
\* one text with non-whitespace content
InlineElement(f, p) ==
    /\ IsElement(f, p)
    /\ TagOf(f, p) \notin VoidTags \cup {"style", "script"}
    /\ Len(Node(f, p).Children) = 1
    /\ Node(f, p \o <<1>>).Type = TextNode
    /\ \E i \in DOMAIN Node(f, p \o <<1>>).Data : ~IsSpace(Node(f, p \o <<1>>).Data[i])

-----------------------------------------------------------------------------
(* Claims *)

RECURSIVE VoidChildless(_)
VoidChildless(kids) ==
    \A i \in 1..Len(kids) :
        /\ (kids[i].Type = ElementNode /\ kids[i].Data[1] \in VoidTags) => kids[i].Children = <<>>
        /\ VoidChildless(kids[i].Children)

RECURSIVE SplitLines(_)
\* the lines of a text: its parts between newlines
SplitLines(s) ==
    IF \A i \in DOMAIN s : s[i] /= NL THEN <<s>>
    ELSE LET i == CHOOSE j \in DOMAIN s : s[j] = NL /\ \A k \in 1..(j - 1) : s[k] /= NL
         IN <<SubSeq(s, 1, i - 1)>> \o SplitLines(SubSeq(s, i + 1, Len(s)))

RECURSIVE Block(_, _)
\* each line after a newline and k spaces
Block(lines, k) ==
    IF lines = <<>> THEN <<>>
    ELSE <<NL>> \o Spaces(k) \o lines[1] \o Block(Tail(lines), k)

\* a <style> or <script> whose only child is one text with non-whitespace content
SpecialWithText(f, p) ==
    /\ IsElement(f, p)
    /\ TagOf(f, p) \in {"style", "script"}
    /\ Len(Node(f, p).Children) = 1
    /\ Node(f, p \o <<1>>).Type = TextNode
    /\ \E i \in DOMAIN Node(f, p \o <<1>>).Data : ~IsSpace(Node(f, p \o <<1>>).Data[i])

GluedText(f, p) ==
    /\ Node(f, p).Type = TextNode
    /\ PrevSibling(f, p) /= Nil
    /\ IsElement(f, PrevSibling(f, p))
    /\ TagOf(f, PrevSibling(f, p)) \notin VoidTags
    /\ Node(f, p).Data /= <<>>
    /\ IsPunct(Node(f, p).Data[1])

\* C4: when the next sibling of a non-void element is a text that begins with
\* punctuation, the text follows the element's end tag at once: no newline and
\* no indent between them.
C4_PunctuationGlue ==
    Finished =>
        \A v \in Visits :
            GluedText(tree, v.ptr) =>
                /\ OutHasBefore(v.from, EndTag(Node(tree, PrevSibling(tree, v.ptr))))
                /\ OutHas(v.from, TrimSpace(Node(tree, v.ptr).Data))

\* C4 witness: <a>text</a>. inside a nested element was written
C4_Witness ==
    /\ Finished
    /\ \E v \in Visits :
          /\ GluedText(tree, v.ptr)
          /\ v.level >= 1
          /\ InlineElement(tree, PrevSibling(tree, v.ptr))
          /\ EndOf(v.ptr) > v.from

\* C5: the content of every text below a <pre> is written as it is: nothing
\* trimmed, nothing added before or after it.
C5_PreVerbatim ==
    Finished =>
        \A v \in Visits :
            (/\ Node(tree, v.ptr).Type = TextNode
             /\ \E a \in Ancestors(v.ptr) : IsElement(tree, a) /\ TagOf(tree, a) = "pre")
                => Span(v) = Node(tree, v.ptr).Data

\* C6: a void element is written as its start tag alone: no end tag, and none
\* of the children the tree gives it is visited.
C6_VoidNoEndTag ==
    Finished =>
        \A v \in Visits :
            (IsElement(tree, v.ptr) /\ TagOf(tree, v.ptr) \in VoidTags) =>
                /\ Span(v) \in {Spaces(v.level) \o StartTag(Node(tree, v.ptr)),
                                Spaces(v.level) \o StartTag(Node(tree, v.ptr)) \o <<NL>>}
                /\ \A u \in Visits : IsPrefix(v.ptr, u.ptr) => u.ptr = v.ptr

\* C6 witness: a void element that has a child was written
C6_Witness ==
    /\ Finished
    /\ \E v \in Visits :
          /\ IsElement(tree, v.ptr)
          /\ TagOf(tree, v.ptr) = "img"
          /\ Node(tree, v.ptr).Children /= <<>>
          /\ IsElement(tree, v.ptr \o <<1>>)
          /\ EndOf(v.ptr) > v.from

\* C7: the attributes of an element are written in their order, each as one
\* space, the name, = and the value in double quotes with & < > " escaped; the
\* value && is written &amp;&amp;.
C7_AttributesEscaped ==
    Finished =>
        \A v \in Visits :
            IsElement(tree, v.ptr) =>
                OutHas(v.from, Spaces(v.level) \o <<"<", TagOf(tree, v.ptr)>>
                                   \o AttrText(Node(tree, v.ptr).Attr) \o <<">">>)

\* C7 witness: an element with two attributes, the first with the value &&
C7_Witness ==
    /\ Finished
    /\ \E v \in Visits :
          /\ IsElement(tree, v.ptr)
          /\ Len(Node(tree, v.ptr).Attr) = 2
          /\ Node(tree, v.ptr).Attr[1] = [Key |-> "id", Val |-> <<"&", "&">>]
          /\ Node(tree, v.ptr).Attr[2].Val = <<"<", QUOT, ">">>
          /\ OutHas(v.from, <<"<", "div", SP, "id", "=", QUOT,
                              "&", "a", "m", "p", ";", "&", "a", "m", "p", ";", QUOT>>)

\* C8: when a write fails, it is the last write attempted, no node is visited
\* after it, the entry point returns its error, and the output is what the
\* writes before it wrote.
C8_FirstWriteErrorAborts ==
    (entry /= "none" /\ w.err /= 0) =>
        /\ w.err = failAt
        /\ w.n = failAt
        /\ \A v \in Visits : v.n < failAt
        /\ IsPrefix(w.out, FormatNodes(NewWriter(0), tree).out)

\* C8 witness: a write failed after some output, with a top-level node left
C8_Witness ==
    /\ entry /= "none"
    /\ w.err /= 0
    /\ Len(w.out) > 0
    /\ Len(tree) = 2
    /\ \A v \in Visits : v.ptr /= <<2>>

\* C9: formatting the output of Fragment again with Fragment gives that output
C9_Idempotent == entry = "Reformat" => again.out = w.out

\* whether what the call of visit v wrote ends with x
SpanEnds(v, x) == EndOf(v.ptr) - v.from >= Len(x) /\ OutHasBefore(EndOf(v.ptr), x)

\* C10: the end tag of a non-void element is followed by a newline, except when
\* the next sibling is a text that begins with punctuation.
C10_NewlineAfterEndTag ==
    Finished =>
        \A v \in Visits :
            (IsElement(tree, v.ptr) /\ TagOf(tree, v.ptr) \notin VoidTags) =>
                LET nx == NextSibling(tree, v.ptr)
                    glued == nx /= Nil /\ GluedText(tree, nx)
                IN IF glued THEN SpanEnds(v, EndTag(Node(tree, v.ptr)))
                   ELSE SpanEnds(v, EndTag(Node(tree, v.ptr)) \o <<NL>>)

====
